---------------------------- MODULE Spec2Model ----------------------------
(***************************************************************************)
(* A model of dtslint's src/lint.ts: the version-range resolver (range),   *)
(* the raw-text content-policy scanners (testNoTsIgnore,                    *)
(* testNoTslintDisables), the typesVersions path predicate                  *)
(* (isTypesVersionPath), the configuration loader (getLintConfig) and the   *)
(* driver (lint).                                                           *)
(*                                                                         *)
(* Strings of the program are sequences of one-character strings, so that  *)
(* indexOf, charAt, slice and the regular expressions are computed on      *)
(* characters.  Offsets are 0-based as in JavaScript; sequence indices are *)
(* 1-based, so the character at offset p is text[p + 1].                   *)
(***************************************************************************)
EXTENDS Integers, Sequences, FiniteSets, TLC

VARIABLES
    \* ---- range(minVersion, maxVersion) called on its own
    rMin, rMax, rPc, rOut,
    \* ---- the content scanners and the report of lines 37-42 on one text
    sText, sPc, sIgnore, sDisable, sReport,
    \* ---- isTypesVersionPath(fileName, dirPath) called on its own
    pFile, pDir, pPc, pOut,
    \* ---- one invocation of lint()
    files, minVersion, maxVersion, isLatest, expectOnly,
    pc, configPath, config, resolved, idx, scanned, fed, failures, outcome

rangeVars == <<rMin, rMax, rPc, rOut>>
scanVars == <<sText, sPc, sIgnore, sDisable, sReport>>
pathVars == <<pFile, pDir, pPc, pOut>>
lintVars == <<files, minVersion, maxVersion, isLatest, expectOnly,
              pc, configPath, config, resolved, idx, scanned, fed, failures, outcome>>
vars == <<rangeVars, scanVars, pathVars, lintVars>>

(***************************************************************************)
(* Bounds of the model.                                                    *)
(***************************************************************************)
\* number of releases in TypeScriptVersion.shipped
NumShipped == 4
\* a scanned text is the concatenation of at most MaxPieces pieces
MaxPieces == 4
\* a file path has at most MaxDepth segments below its root directory
MaxDepth == 2
\* the program has at most MaxFiles source files
MaxFiles == 2

(***************************************************************************)
(* JavaScript string primitives used by the source.                        *)
(***************************************************************************)
Min(S) == CHOOSE m \in S : \A n \in S : m <= n

\* pat occurs in text at offset p
OccursAt(text, pat, p) ==
    /\ p >= 0
    /\ p + Len(pat) <= Len(text)
    /\ \A i \in 1..Len(pat) : text[p + i] = pat[i]

\* text.indexOf(pat, from): the least offset >= from of an occurrence, or -1
IndexOfFrom(text, pat, from) ==
    LET hits == {p \in from..(Len(text) - Len(pat)) : OccursAt(text, pat, p)}
    IN  IF hits = {} THEN -1 ELSE Min(hits)

IndexOf(text, pat) == IndexOfFrom(text, pat, 0)

\* text.includes(pat)
Includes(text, pat) == IndexOf(text, pat) # -1

\* text.charAt(i): the empty string past the end
CharAt(text, i) == IF i >= 0 /\ i < Len(text) THEN text[i + 1] ELSE ""

\* text.startsWith(prefix)
StartsWith(text, prefix) == OccursAt(text, prefix, 0)

\* text.slice(from) for 0 <= from
SliceFrom(text, from) ==
    IF from >= Len(text) THEN <<>> ELSE SubSeq(text, from + 1, Len(text))

RECURSIVE Flatten(_)
Flatten(ss) == IF ss = <<>> THEN <<>> ELSE Head(ss) \o Flatten(Tail(ss))

Digits == {"0", "1", "2", "3", "4", "5", "6", "7", "8", "9"}

(***************************************************************************)
(* range(minVersion, maxVersion), lines 129-148.                           *)
(*                                                                         *)
(* TypeScriptVersion.shipped is the ascending sequence of released         *)
(* versions and TypeScriptVersion.latest the tag after the last of them;   *)
(* "local" is the extra member of TsVersion (line 150).  UnknownTags are   *)
(* strings that are no member of the shipped sequence, latest or local.    *)
(***************************************************************************)
Shipped == [i \in 1..NumShipped |-> ToString(i)]
Latest == "latest"
Local == "local"
UnknownTags == {"unshipped-a", "unshipped-b"}
ShippedTags == {Shipped[i] : i \in 1..NumShipped}
Tags == ShippedTags \cup {Latest, Local} \cup UnknownTags

\* TypeScriptVersion.shipped.indexOf(v): 0-based, -1 when absent
ShippedIndexOf(v) ==
    LET hits == {i \in 1..NumShipped : Shipped[i] = v}
    IN  IF hits = {} THEN -1 ELSE Min(hits) - 1

\* TypeScriptVersion.shipped.slice(from, to) for 0 <= from: offsets from..to-1
ShippedSlice(from, to) ==
    IF to <= from THEN <<>> ELSE SubSeq(Shipped, from + 1, to)

Returned(list) == [ok |-> TRUE, list |-> list, failed |-> ""]
\* assert(cond) failed: an AssertionError naming the asserted expression
AssertionError(expr) == [ok |-> FALSE, list |-> <<>>, failed |-> expr]

\* faulty variant: "local" as minimum accepted whatever the maximum
rangeLocalUnchecked(minV, maxV) ==
    IF minV = Local THEN Returned(<<Local>>)
    ELSE IF minV = Latest THEN
        IF maxV # Latest THEN AssertionError("maxVersion === TypeScriptVersion.latest")
        ELSE Returned(<<Latest>>)
    ELSE IF maxV = Local THEN AssertionError("maxVersion !== \"local\"")
    ELSE LET minIdx == ShippedIndexOf(minV) IN
         IF ~(minIdx >= 0) THEN AssertionError("minIdx >= 0")
         ELSE IF maxV = Latest
              THEN Returned(ShippedSlice(minIdx, NumShipped) \o <<Latest>>)
         ELSE LET maxIdx == ShippedIndexOf(maxV) IN
              IF ~(maxIdx >= minIdx) THEN AssertionError("maxIdx >= minIdx")
              ELSE Returned(ShippedSlice(minIdx, maxIdx + 1))

\* faulty variant: the slice's end is exclusive of max (slice(minIdx, maxIdx))
rangeExclusiveEnd(minV, maxV) ==
    IF minV = Local THEN
        IF maxV # Local THEN AssertionError("maxVersion === \"local\"")
        ELSE Returned(<<Local>>)
    ELSE IF minV = Latest THEN
        IF maxV # Latest THEN AssertionError("maxVersion === TypeScriptVersion.latest")
        ELSE Returned(<<Latest>>)
    ELSE IF maxV = Local THEN AssertionError("maxVersion !== \"local\"")
    ELSE LET minIdx == ShippedIndexOf(minV) IN
         IF ~(minIdx >= 0) THEN AssertionError("minIdx >= 0")
         ELSE IF maxV = Latest
              THEN Returned(ShippedSlice(minIdx, NumShipped) \o <<Latest>>)
         ELSE LET maxIdx == ShippedIndexOf(maxV) IN
              IF ~(maxIdx >= minIdx) THEN AssertionError("maxIdx >= minIdx")
              ELSE Returned(ShippedSlice(minIdx, maxIdx))

\* faulty variant: the last assertion (maxIdx >= minIdx) is missing
rangeNoOrderAssert(minV, maxV) ==
    IF minV = Local THEN
        IF maxV # Local THEN AssertionError("maxVersion === \"local\"")
        ELSE Returned(<<Local>>)
    ELSE IF minV = Latest THEN
        IF maxV # Latest THEN AssertionError("maxVersion === TypeScriptVersion.latest")
        ELSE Returned(<<Latest>>)
    ELSE IF maxV = Local THEN AssertionError("maxVersion !== \"local\"")
    ELSE LET minIdx == ShippedIndexOf(minV) IN
         IF ~(minIdx >= 0) THEN AssertionError("minIdx >= 0")
         ELSE IF maxV = Latest
              THEN Returned(ShippedSlice(minIdx, NumShipped) \o <<Latest>>)
         ELSE LET maxIdx == ShippedIndexOf(maxV) IN
              Returned(ShippedSlice(minIdx, maxIdx + 1))

range(minV, maxV) ==
    IF minV = Local THEN
        IF maxV # Local THEN AssertionError("maxVersion === \"local\"")
        ELSE Returned(<<Local>>)
    ELSE IF minV = Latest THEN
        IF maxV # Latest THEN AssertionError("maxVersion === TypeScriptVersion.latest")
        ELSE Returned(<<Latest>>)
    ELSE IF maxV = Local THEN AssertionError("maxVersion !== \"local\"")
    ELSE LET minIdx == ShippedIndexOf(minV) IN
         IF ~(minIdx >= 0) THEN AssertionError("minIdx >= 0")
         ELSE IF maxV = Latest
              THEN Returned(ShippedSlice(minIdx, NumShipped) \o <<Latest>>)
         ELSE LET maxIdx == ShippedIndexOf(maxV) IN
              IF ~(maxIdx >= minIdx) THEN AssertionError("maxIdx >= minIdx")
              ELSE Returned(ShippedSlice(minIdx, maxIdx + 1))

NoResult == [ok |-> FALSE, list |-> <<>>, failed |-> "not called"]


(***************************************************************************)
(* The content-policy scanners, lines 71-95, and the report of lines       *)
(* 37-42.                                                                  *)
(***************************************************************************)
\* "ts-ignore" (line 73)
tsIgnore == <<"t", "s", "-", "i", "g", "n", "o", "r", "e">>
\* "tslint:disable" (line 78)
tslintDisable == <<"t", "s", "l", "i", "n", "t", ":", "d", "i", "s", "a", "b", "l", "e">>

TsIgnoreMessage == "'ts-ignore' is forbidden."
TslintDisableMessage == "'tslint:disable' is forbidden. ('tslint:disable:rulename', tslint:disable-line' and 'tslint:disable-next-line' are allowed.)"

\* interface Err { pos, message } | undefined
Undefined == [found |-> FALSE, pos |-> -1, message |-> ""]
Err(pos, message) == [found |-> TRUE, pos |-> pos, message |-> message]

\* faulty variant: the offset of the last occurrence (lastIndexOf) instead of the first
testNoTsIgnoreLast(text) ==
    LET hits == {p \in 0..Len(text) : OccursAt(text, tsIgnore, p)}
    IN  IF hits = {} THEN Undefined
        ELSE Err(CHOOSE m \in hits : \A n \in hits : n <= m, TsIgnoreMessage)

testNoTsIgnore(text) ==
    LET pos == IndexOf(text, tsIgnore)
    IN  IF pos = -1 THEN Undefined ELSE Err(pos, TsIgnoreMessage)

\* faulty variant: a single indexOf call; a qualified first occurrence ends the scan
testNoTslintDisablesSingleIndexOf(text) ==
    LET pos == IndexOf(text, tslintDisable)
        nextChar == CharAt(text, pos + Len(tslintDisable))
    IN  IF pos = -1 THEN Undefined
        ELSE IF nextChar # "-" /\ nextChar # ":" THEN Err(pos, TslintDisableMessage)
        ELSE Undefined

\* the while (true) loop of lines 81-94, one iteration per unfolding
RECURSIVE tslintDisablesLoop(_, _)
tslintDisablesLoop(text, lastIndex) ==
    LET pos == IndexOfFrom(text, tslintDisable, lastIndex)
        end == pos + Len(tslintDisable)
        nextChar == CharAt(text, end)
    IN  IF pos = -1 THEN Undefined
        ELSE IF nextChar # "-" /\ nextChar # ":" THEN Err(pos, TslintDisableMessage)
        ELSE tslintDisablesLoop(text, end)

testNoTslintDisables(text) == tslintDisablesLoop(text, 0)

\* faulty variant: only the ts-ignore policy is applied
ScanTextTsIgnoreOnly(text) == testNoTsIgnore(text)

\* line 37: testNoTsIgnore(text) || testNoTslintDisables(text)
ScanText(text) ==
    IF testNoTsIgnore(text).found THEN testNoTsIgnore(text)
    ELSE testNoTslintDisables(text)

\* file.getLineAndCharacterOfPosition(pos): 0-based line and column, lines
\* ending at "\n"
LineAndCharacter(text, pos) ==
    LET breaks == {i \in 1..pos : text[i] = "\n"}
        lineStart == IF breaks = {} THEN 0
                     ELSE CHOOSE m \in breaks : \A n \in breaks : n <= m
    IN  [line |-> Cardinality(breaks), character |-> pos - lineStart]

NoPlace == [line |-> -1, character |-> -1]

\* what lint() ends with: a returned string (the content-policy error of
\* line 41 or the engine's output of line 52), returned undefined, or a throw
Report(kind, fileName, place, message, output) ==
    [kind |-> kind, fileName |-> fileName, place |-> place,
     message |-> message, output |-> output]
NoOutcome == Report("none", <<>>, NoPlace, "", <<>>)
ReturnedUndefined == Report("undefined", <<>>, NoPlace, "", <<>>)
Threw(message) == Report("threw", <<>>, NoPlace, message, <<>>)
EngineOutput(output) == Report("engineOutput", <<>>, NoPlace, "", output)

\* lines 38-41: `At ${fileName}:${JSON.stringify(place)}: ${message}`
ContentError(fileName, text, err) ==
    Report("contentError", fileName, LineAndCharacter(text, err.pos), err.message, <<>>)

\* the pieces a scanned text is made of: the tslint:disable marker, the
\* characters that qualify it, an allowed "tslint:disable-next-line", a
\* compiler-suppression comment, filler, and a 40-character line
Colon == <<":">>
Hyphen == <<"-">>
Filler == <<"x">>
DisableNextLine == <<"t", "s", "l", "i", "n", "t", ":", "d", "i", "s", "a", "b", "l", "e", "-", "n", "e", "x", "t", "-", "l", "i", "n", "e">>
TsIgnoreComment == <<"/", "/", " ", "@", "t", "s", "-", "i", "g", "n", "o", "r", "e">>
PadLine == [i \in 1..40 |-> IF i = 40 THEN "\n" ELSE "x"]
Pieces ==
    {tslintDisable, Colon, Hyphen, DisableNextLine, Filler, TsIgnoreComment, PadLine}
PieceSeqs == UNION {[1..n -> Pieces] : n \in 0..MaxPieces}
ScanFileName == <<"/", "p", "/", "a", ".", "d", ".", "t", "s">>

(***************************************************************************)
(* normalizePath and isTypesVersionPath, lines 56-68.                      *)
(***************************************************************************)
LowerCase == <<"a", "b", "c", "d", "e", "f", "g", "h", "i", "j", "k", "l", "m", "n", "o", "p", "q", "r", "s", "t", "u", "v", "w", "x", "y", "z">>
UpperCase == <<"A", "B", "C", "D", "E", "F", "G", "H", "I", "J", "K", "L", "M", "N", "O", "P", "Q", "R", "S", "T", "U", "V", "W", "X", "Y", "Z">>
ToUpperCase(c) ==
    IF \E i \in 1..Len(LowerCase) : LowerCase[i] = c
    THEN UpperCase[CHOOSE i \in 1..Len(LowerCase) : LowerCase[i] = c]
    ELSE c

\* the segments of path between "/" separators (an empty path has one, empty)
RECURSIVE SplitSlash(_, _)
SplitSlash(path, cur) ==
    IF path = <<>> THEN <<cur>>
    ELSE IF Head(path) = "/" THEN <<cur>> \o SplitSlash(Tail(path), <<>>)
    ELSE SplitSlash(Tail(path), Append(cur, Head(path)))

\* drop empty and "." segments, let ".." remove the segment before it
RECURSIVE ResolveSegments(_, _, _)
ResolveSegments(segs, acc, isAbsolute) ==
    IF segs = <<>> THEN acc
    ELSE LET seg == Head(segs) rest == Tail(segs) IN
         IF seg = <<>> \/ seg = <<".">> THEN ResolveSegments(rest, acc, isAbsolute)
         ELSE IF seg = <<".", ".">> THEN
             IF acc # <<>> /\ acc[Len(acc)] # <<".", ".">>
             THEN ResolveSegments(rest, SubSeq(acc, 1, Len(acc) - 1), isAbsolute)
             ELSE IF isAbsolute THEN ResolveSegments(rest, acc, isAbsolute)
             ELSE ResolveSegments(rest, Append(acc, seg), isAbsolute)
         ELSE ResolveSegments(rest, Append(acc, seg), isAbsolute)

RECURSIVE JoinSlash(_)
JoinSlash(segs) ==
    IF segs = <<>> THEN <<>>
    ELSE IF Len(segs) = 1 THEN Head(segs)
    ELSE Head(segs) \o <<"/">> \o JoinSlash(Tail(segs))

\* path.normalize of Node's posix path module: "/" is the only separator,
\* repeated separators collapse, "." and ".." resolve, and a trailing
\* separator is kept
normalize(path) ==
    IF path = <<>> THEN <<".">>
    ELSE LET isAbsolute == path[1] = "/"
             trailingSeparator == path[Len(path)] = "/"
             body == JoinSlash(ResolveSegments(SplitSlash(path, <<>>), <<>>, isAbsolute))
             dotted == IF body = <<>> /\ ~isAbsolute THEN <<".">> ELSE body
             slashed == IF dotted # <<>> /\ trailingSeparator
                        THEN Append(dotted, "/") ELSE dotted
         IN  IF isAbsolute THEN <<"/">> \o slashed ELSE slashed

\* .replace(/\\/g, "/")
ReplaceBackslashes(s) == [i \in 1..Len(s) |-> IF s[i] = "\\" THEN "/" ELSE s[i]]

\* .replace(/^[a-z](?=:)/, c => c.toUpperCase())
UpperCaseDriveLetter(s) ==
    IF Len(s) >= 2 /\ s[2] = ":" /\ (\E i \in 1..Len(LowerCase) : LowerCase[i] = s[1])
    THEN [i \in 1..Len(s) |-> IF i = 1 THEN ToUpperCase(s[1]) ELSE s[i]]
    ELSE s

\* faulty variant: the drive letter keeps its case
normalizePathKeepDriveCase(file) == ReplaceBackslashes(normalize(file))

normalizePath(file) == UpperCaseDriveLetter(ReplaceBackslashes(normalize(file)))

\* withoutPrefix of ./util: s without the leading prefix, undefined when s
\* does not start with it
NoString == [defined |-> FALSE, value |-> <<>>]
withoutPrefix(s, prefix) ==
    IF StartsWith(s, prefix)
    THEN [defined |-> TRUE, value |-> SliceFrom(s, Len(prefix))]
    ELSE NoString

\* /^\/ts\d+\.\d/.test(s)
MatchesTsVersionDir(s) ==
    /\ Len(s) >= 6
    /\ s[1] = "/" /\ s[2] = "t" /\ s[3] = "s"
    /\ \E k \in 1..(Len(s) - 5) :
          /\ \A i \in 4..(3 + k) : s[i] \in Digits
          /\ s[4 + k] = "."
          /\ s[5 + k] \in Digits

\* the truthiness of `subdirPath && /^\/ts\d+\.\d/.test(subdirPath)`
isTypesVersionPath(fileName, dirPath) ==
    LET normalFileName == normalizePath(fileName)
        normalDirPath == normalizePath(dirPath)
        subdirPath == withoutPrefix(normalFileName, normalDirPath)
    IN  /\ subdirPath.defined
        /\ subdirPath.value # <<>>
        /\ MatchesTsVersionDir(subdirPath.value)

\* the paths isTypesVersionPath is applied to: a drive prefix, a separator
\* style, the directory's segments, the segments below it, and for a
\* directory whether it is written with a trailing separator
Drives == {<<>>, <<"c", ":">>, <<"C", ":">>, <<"d", ":">>}
Separators == {"/", "\\"}
Roots == {<<<<"p", "r", "o", "j", "e", "c", "t">>>>, <<<<"p", "r", "o", "j">>>>}
RelSegments == {<<"t", "s", "3", ".", "8">>, <<"t", "s", "3">>, <<"t", "s", ".", "8">>, <<"t", "s", "1", "0", ".", "1", "2">>, <<"i", "n", "d", "e", "x", ".", "d", ".", "t", "s">>}
RelPaths == UNION {[1..n -> RelSegments] : n \in 1..MaxDepth}
FilePaths == [drive : Drives, sep : Separators, root : Roots, rel : RelPaths,
              trailing : {FALSE}]
DirPaths == [drive : Drives, sep : Separators, root : Roots, rel : {<<>>},
             trailing : BOOLEAN]

RECURSIVE RenderSegments(_, _)
RenderSegments(segs, sep) ==
    IF segs = <<>> THEN <<>>
    ELSE <<sep>> \o Head(segs) \o RenderSegments(Tail(segs), sep)

\* the path string as written
Render(p) ==
    p.drive \o RenderSegments(p.root \o p.rel, p.sep)
            \o (IF p.trailing THEN <<p.sep>> ELSE <<>>)

(***************************************************************************)
(* getLintConfig, lines 101-127.                                           *)
(***************************************************************************)
\* the ruleArguments slot of the "expect" rule; written is FALSE until
\* line 124 assigns it
NoArguments == [written |-> FALSE, tsconfigPath |-> "", versionsToTest |-> <<>>]

\* Configuration.findConfiguration(configPath, "").results: undefined, or a
\* configuration whose rules hold no "expect" entry or one with a severity
NoConfig ==
    [loaded |-> FALSE, hasExpect |-> FALSE, ruleSeverity |-> "",
     ruleArguments |-> NoArguments]
Severities == {"error", "warning", "off"}
ConfigResults ==
    {NoConfig}
    \cup {[loaded |-> TRUE, hasExpect |-> FALSE, ruleSeverity |-> "",
           ruleArguments |-> NoArguments]}
    \cup {[loaded |-> TRUE, hasExpect |-> TRUE, ruleSeverity |-> sev,
           ruleArguments |-> NoArguments] : sev \in Severities}

\* lines 21, 29, 98, 109: the paths the run reads
TsconfigPath == "dirPath/tsconfig.json"
ExpectOnlyConfigPath == "dtslint-expect-only.json"
ProjectConfigPath == "dirPath/tslint.json"
DefaultConfigPath == "dtslint.json"
getConfigPath == ProjectConfigPath

\* typeScriptPath(versionName, tsLocal) of @definitelytyped/utils
TsLocal == "tsLocal"
typeScriptPath(versionName, tsLocal) ==
    IF versionName = Local THEN <<tsLocal>> ELSE <<"typescript", versionName>>

\* faulty variant: the rule only has to be present, at any severity
ExpectRulePresent(cfg) == cfg.hasExpect

\* line 117 negated: expectRule && expectRule.ruleSeverity === "error"
ExpectRuleEnabled(cfg) == cfg.hasExpect /\ cfg.ruleSeverity = "error"

CouldNotLoadMessage == "Could not load config"
ExpectDisabledMessage == "'expect' rule should be enabled, else compile errors are ignored"

\* lines 121-123
VersionsToTest(list) ==
    [i \in 1..Len(list) |->
        [versionName |-> list[i], path |-> typeScriptPath(list[i], TsLocal)]]

(***************************************************************************)
(* lint, lines 14-53.                                                      *)
(***************************************************************************)
nodeModules == <<"n", "o", "d", "e", "_", "m", "o", "d", "u", "l", "e", "s">>
\* the project directory and the source files lintProgram.getSourceFiles()
\* may hold: a declaration file, one in a typesVersions directory, one of a
\* dependency, and a default library file
LintDirPath == <<"/", "p">>
PlainFileName == <<"/", "p", "/", "a", ".", "d", ".", "t", "s">>
PinnedFileName == <<"/", "p", "/", "t", "s", "3", ".", "8", "/", "a", ".", "d", ".", "t", "s">>
DependencyFileName == <<"/", "p", "/", "n", "o", "d", "e", "_", "m", "o", "d", "u", "l", "e", "s", "/", "b", ".", "d", ".", "t", "s">>
LibFileName == <<"/", "l", "i", "b", "/", "l", "i", "b", ".", "d", ".", "t", "s">>
LintFileNames == {PlainFileName, PinnedFileName, DependencyFileName, LibFileName}
CleanText == Filler
TsIgnoreAt40Text == PadLine \o TsIgnoreComment \o PadLine
BareAfterQualifiedText == tslintDisable \o Hyphen \o Filler \o tslintDisable
LintTexts == {CleanText, TsIgnoreAt40Text, BareAfterQualifiedText}
LintFiles ==
    {[fileName |-> n, text |-> t, isDefaultLibrary |-> (n = LibFileName)] :
        n \in LintFileNames, t \in LintTexts}
Programs == UNION {[1..n -> LintFiles] : n \in 0..MaxFiles}
\* the (minVersion, maxVersion) arguments lint() is called with
LintRanges == {<<Shipped[1], Shipped[NumShipped]>>, <<Shipped[NumShipped], Shipped[1]>>,
               <<Local, Local>>}

\* faulty variant: typesVersions files are skipped on every pass, latest or not
ShouldLintIgnoringIsLatest(fileName) == ~isTypesVersionPath(fileName, LintDirPath)

\* line 46
ShouldLint(fileName) == ~isLatest \/ ~isTypesVersionPath(fileName, LintDirPath)

\* faulty variant: result.output is returned whether or not there are failures
ResultAlwaysOutput(engineFailures) == EngineOutput(engineFailures)

\* lines 51-52
Result(engineFailures) ==
    IF Len(engineFailures) # 0 THEN EngineOutput(engineFailures) ELSE ReturnedUndefined

IdleRange ==
    rMin = Local /\ rMax = Local /\ rPc = "idle" /\ rOut = NoResult
IdleScan ==
    /\ sText = <<>> /\ sPc = "idle" /\ sIgnore = Undefined /\ sDisable = Undefined
    /\ sReport = NoOutcome
IdlePath ==
    /\ pFile = [drive |-> <<>>, sep |-> "/", root |-> <<>>, rel |-> <<>>, trailing |-> FALSE]
    /\ pDir = [drive |-> <<>>, sep |-> "/", root |-> <<>>, rel |-> <<>>, trailing |-> FALSE]
    /\ pPc = "idle" /\ pOut = FALSE
IdleLint ==
    /\ files = <<>> /\ minVersion = Local /\ maxVersion = Local
    /\ isLatest = FALSE /\ expectOnly = FALSE
    /\ pc = "idle" /\ configPath = "" /\ config = NoConfig
    /\ resolved = NoResult
    /\ idx = 1 /\ scanned = <<>> /\ fed = <<>> /\ failures = <<>>
    /\ outcome = NoOutcome

Init ==
    /\ IdleRange /\ IdleScan /\ IdlePath
    /\ files \in Programs
    /\ \E r \in LintRanges : minVersion = r[1] /\ maxVersion = r[2]
    /\ isLatest \in BOOLEAN
    /\ expectOnly \in BOOLEAN
    /\ pc = "start"
    /\ configPath = ""
    /\ config = NoConfig
    /\ resolved = NoResult
    /\ idx = 1
    /\ scanned = <<>> /\ fed = <<>> /\ failures = <<>>
    /\ outcome = NoOutcome

\* lines 21-30 up to the await of pathExists (line 108)
CreateProgram ==
    /\ pc = "start"
    /\ configPath' = IF expectOnly THEN ExpectOnlyConfigPath ELSE getConfigPath
    /\ pc' = "pathExists"
    /\ UNCHANGED <<files, minVersion, maxVersion, isLatest, expectOnly, config,
                   resolved, idx, scanned, fed, failures, outcome>>
    /\ UNCHANGED <<rangeVars, scanVars, pathVars>>

\* lines 108-127 after the await: the file system answers configExists and
\* the configuration the chosen path loads
GetLintConfig ==
    /\ pc = "pathExists"
    /\ \E configExists \in BOOLEAN, results \in ConfigResults :
        /\ configPath' = IF configExists THEN configPath ELSE DefaultConfigPath
        /\ IF ~results.loaded THEN
               /\ config' = results
               /\ resolved' = resolved
               /\ outcome' = Threw(CouldNotLoadMessage)
               /\ pc' = "done"
           ELSE IF ~ExpectRuleEnabled(results) THEN
               /\ config' = results
               /\ resolved' = resolved
               /\ outcome' = Threw(ExpectDisabledMessage)
               /\ pc' = "done"
           ELSE LET versions == range(minVersion, maxVersion) IN
               /\ resolved' = versions
               /\ IF ~versions.ok THEN
                      /\ config' = results
                      /\ outcome' = Threw(versions.failed)
                      /\ pc' = "done"
                  ELSE
                      /\ config' = [results EXCEPT !.ruleArguments =
                             [written |-> TRUE, tsconfigPath |-> TsconfigPath,
                              versionsToTest |-> VersionsToTest(versions.list)]]
                      /\ outcome' = outcome
                      /\ pc' = "loop"
    /\ UNCHANGED <<files, minVersion, maxVersion, isLatest, expectOnly,
                   idx, scanned, fed, failures>>
    /\ UNCHANGED <<rangeVars, scanVars, pathVars>>

\* one iteration of the for loop, lines 32-49; the rule engine answers
\* whether linter.lint adds failures for the file
LoopIteration ==
    /\ pc = "loop"
    /\ idx <= Len(files)
    /\ LET file == files[idx]
           excluded == Includes(file.fileName, nodeModules)
           err == IF excluded THEN Undefined ELSE ScanText(file.text)
       IN  IF file.isDefaultLibrary THEN
               /\ idx' = idx + 1
               /\ UNCHANGED <<pc, scanned, fed, failures, outcome>>
           ELSE IF err.found THEN
               /\ scanned' = Append(scanned, idx)
               /\ outcome' = ContentError(file.fileName, file.text, err)
               /\ pc' = "done"
               /\ UNCHANGED <<idx, fed, failures>>
           ELSE
               /\ scanned' = IF excluded THEN scanned ELSE Append(scanned, idx)
               /\ IF ShouldLint(file.fileName)
                  THEN \E fails \in BOOLEAN :
                          /\ fed' = Append(fed, idx)
                          /\ failures' = IF fails THEN Append(failures, idx) ELSE failures
                  ELSE UNCHANGED <<fed, failures>>
               /\ idx' = idx + 1
               /\ UNCHANGED <<pc, outcome>>
    /\ UNCHANGED <<files, minVersion, maxVersion, isLatest, expectOnly,
                   configPath, config, resolved>>
    /\ UNCHANGED <<rangeVars, scanVars, pathVars>>

\* lines 51-52
GetResult ==
    /\ pc = "loop"
    /\ idx > Len(files)
    /\ outcome' = Result(failures)
    /\ pc' = "done"
    /\ UNCHANGED <<files, minVersion, maxVersion, isLatest, expectOnly,
                   configPath, config, resolved, idx, scanned, fed, failures>>
    /\ UNCHANGED <<rangeVars, scanVars, pathVars>>

Next == CreateProgram \/ GetLintConfig \/ LoopIteration \/ GetResult

Spec == Init /\ [][Next]_vars

(***************************************************************************)
(* range applied to every pair of tags.                                    *)
(***************************************************************************)
InitRange ==
    /\ rMin \in Tags /\ rMax \in Tags
    /\ rPc = "call"
    /\ rOut = NoResult
    /\ IdleScan /\ IdlePath /\ IdleLint

CallRange ==
    /\ rPc = "call"
    /\ rOut' = range(rMin, rMax)
    /\ rPc' = "done"
    /\ UNCHANGED <<rMin, rMax, scanVars, pathVars, lintVars>>

NextRange == CallRange

SpecRange == InitRange /\ [][NextRange]_vars

(***************************************************************************)
(* The scanners and the report of lines 36-42 applied to one text.         *)
(***************************************************************************)
InitScan ==
    /\ \E ps \in PieceSeqs : sText = Flatten(ps)
    /\ sPc = "testNoTsIgnore"
    /\ sIgnore = Undefined /\ sDisable = Undefined /\ sReport = NoOutcome
    /\ IdleRange /\ IdlePath /\ IdleLint

CallTestNoTsIgnore ==
    /\ sPc = "testNoTsIgnore"
    /\ sIgnore' = testNoTsIgnore(sText)
    /\ sPc' = "testNoTslintDisables"
    /\ UNCHANGED <<sText, sDisable, sReport, rangeVars, pathVars, lintVars>>

CallTestNoTslintDisables ==
    /\ sPc = "testNoTslintDisables"
    /\ sDisable' = testNoTslintDisables(sText)
    /\ sPc' = "report"
    /\ UNCHANGED <<sText, sIgnore, sReport, rangeVars, pathVars, lintVars>>

\* lines 36-42 for a file named ScanFileName holding sText
ReportContent ==
    /\ sPc = "report"
    /\ sReport' = IF ~Includes(ScanFileName, nodeModules) /\ ScanText(sText).found
                  THEN ContentError(ScanFileName, sText, ScanText(sText))
                  ELSE NoOutcome
    /\ sPc' = "done"
    /\ UNCHANGED <<sText, sIgnore, sDisable, rangeVars, pathVars, lintVars>>

NextScan == CallTestNoTsIgnore \/ CallTestNoTslintDisables \/ ReportContent

SpecScan == InitScan /\ [][NextScan]_vars

(***************************************************************************)
(* isTypesVersionPath applied to a file path and a directory path.         *)
(***************************************************************************)
InitPath ==
    /\ pFile \in FilePaths
    /\ pDir \in DirPaths
    /\ pPc = "call"
    /\ pOut = FALSE
    /\ IdleRange /\ IdleScan /\ IdleLint

CallIsTypesVersionPath ==
    /\ pPc = "call"
    /\ pOut' = isTypesVersionPath(Render(pFile), Render(pDir))
    /\ pPc' = "done"
    /\ UNCHANGED <<pFile, pDir, rangeVars, scanVars, lintVars>>

NextPath == CallIsTypesVersionPath

SpecPath == InitPath /\ [][NextPath]_vars

(***************************************************************************)
(* Properties.  The reference notions below are stated on the inputs,      *)
(* without the scanners' loops or the path normalisation.                  *)
(***************************************************************************)
\* position of a shipped tag in release order
Pos(tag) == CHOOSE i \in 1..NumShipped : Shipped[i] = tag
Inverted(a, b) == a \in ShippedTags /\ b \in ShippedTags /\ Pos(a) > Pos(b)
HasUnknown(a, b) == a \in UnknownTags \/ b \in UnknownTags

\* offsets of "ts-ignore" in text
TsIgnoreOffsets(text) == {p \in 0..Len(text) : OccursAt(text, tsIgnore, p)}
\* offsets of a "tslint:disable" that is not followed by ':' or '-'
BareOffsets(text) ==
    {p \in 0..Len(text) :
        /\ OccursAt(text, tslintDisable, p)
        /\ \/ p + Len(tslintDisable) = Len(text)
           \/ text[p + Len(tslintDisable) + 1] \notin {":", "-"}}
\* offsets of a "tslint:disable" that is followed by ':' or '-'
QualifiedOffsets(text) ==
    {p \in 0..Len(text) :
        /\ OccursAt(text, tslintDisable, p)
        /\ p + Len(tslintDisable) < Len(text)
        /\ text[p + Len(tslintDisable) + 1] \in {":", "-"}}
HasBanned(text) == TsIgnoreOffsets(text) # {} \/ BareOffsets(text) # {}
\* the content-policy error of a file with a banned directive
ExpectedContentError(file) ==
    IF TsIgnoreOffsets(file.text) # {}
    THEN Report("contentError", file.fileName,
                LineAndCharacter(file.text, Min(TsIgnoreOffsets(file.text))),
                TsIgnoreMessage, <<>>)
    ELSE Report("contentError", file.fileName,
                LineAndCharacter(file.text, Min(BareOffsets(file.text))),
                TslintDisableMessage, <<>>)

\* getLintConfig returned a configuration: it loaded, its "expect" rule is at
\* severity "error", and the version range resolved
Configured ==
    /\ config.loaded /\ config.hasExpect /\ config.ruleSeverity = "error"
    /\ resolved.ok
\* file i is one the loop content-scans: neither a default library file nor
\* under node_modules
ContentScanned(i) ==
    ~files[i].isDefaultLibrary /\ files[i].fileName # DependencyFileName
\* file i is one the loop hands to the rule engine
EngineFed(i) ==
    ~files[i].isDefaultLibrary /\ ~(isLatest /\ files[i].fileName = PinnedFileName)
BannedFiles == {i \in 1..Len(files) : ContentScanned(i) /\ HasBanned(files[i].text)}
Indices == [i \in 1..Len(files) |-> i]

\* C1: in every run of lint() that gets its configuration, if some source
\* file that is no default library file and is not under node_modules holds a
\* banned directive, the run returns the content-policy error of the first
\* such file in iteration order, and not the rule engine's output, whatever
\* failures the engine has accumulated.
C1_FirstBannedFileWins ==
    (pc = "done" /\ Configured /\ BannedFiles # {})
        => outcome = ExpectedContentError(files[Min(BannedFiles)])

\* a second file's banned directive is reported although the engine already
\* holds failures of the first file
C1_Witness ==
    /\ pc = "done" /\ Configured
    /\ Len(files) >= 2 /\ Min(BannedFiles \cup {3}) = 2
    /\ failures = <<1>>
    /\ outcome.kind = "contentError" /\ outcome.fileName = files[2].fileName

\* C2: testNoTslintDisables returns no violation for a text whose every
\* "tslint:disable" is followed by ':' or '-', and otherwise the offset of the
\* first occurrence not so followed (one at the very end of the text
\* included), however many qualified occurrences precede it.
C2_FirstBareOccurrence ==
    sPc \in {"report", "done"} =>
        IF BareOffsets(sText) = {} THEN sDisable = Undefined
        ELSE sDisable = Err(Min(BareOffsets(sText)), TslintDisableMessage)

\* two qualified occurrences, then a bare one that ends the text
C2_Witness ==
    /\ sPc = "done"
    /\ sDisable.found
    /\ sDisable.pos + Len(tslintDisable) = Len(sText)
    /\ Cardinality({q \in QualifiedOffsets(sText) : q < sDisable.pos}) >= 2

\* C3 as stated: for a text holding the comment `// @ts-ignore` at offset 40
\* (and no "ts-ignore" before it), the reported location is that of offset 40
\* and the message is the ts-ignore message.
C3_Original ==
    (/\ sPc = "done"
     /\ OccursAt(sText, TsIgnoreComment, 40)
     /\ \A p \in TsIgnoreOffsets(sText) : p > 40)
        => /\ sReport.kind = "contentError"
           /\ sReport.place = LineAndCharacter(sText, 40)
           /\ sReport.message = TsIgnoreMessage

\* C3: for a text containing "ts-ignore", testNoTsIgnore returns the offset of
\* the first occurrence of the substring "ts-ignore" itself, and the report of
\* the run gives that offset's line and column with the fixed ts-ignore
\* message, whatever surrounds it; for `// @ts-ignore` at offset 40 that is
\* offset 44.
C3_FirstTsIgnoreOffset ==
    (sPc = "done" /\ TsIgnoreOffsets(sText) # {})
        => /\ sIgnore = Err(Min(TsIgnoreOffsets(sText)), TsIgnoreMessage)
           /\ sReport = Report("contentError", ScanFileName,
                               LineAndCharacter(sText, Min(TsIgnoreOffsets(sText))),
                               TsIgnoreMessage, <<>>)

\* `// @ts-ignore` at offset 40, after a bare tslint:disable, reported at
\* offset 44: line 1, column 4
C3_Witness ==
    /\ sPc = "done"
    /\ OccursAt(sText, TsIgnoreComment, 40)
    /\ BareOffsets(sText) # {}
    /\ sIgnore.pos = 44
    /\ sReport.place = [line |-> 1, character |-> 4]
    /\ sReport.message = TsIgnoreMessage

\* C4: for shipped min and max with position(min) <= position(max), range
\* returns the inclusive contiguous slice of the shipped sequence: non-empty,
\* strictly increasing in release order (so duplicate-free), first element
\* min, last element max, of length position(max) - position(min) + 1.
C4_InclusiveSlice ==
    (/\ rPc = "done"
     /\ rMin \in ShippedTags /\ rMax \in ShippedTags
     /\ Pos(rMin) <= Pos(rMax))
        => /\ rOut.ok
           /\ Len(rOut.list) = Pos(rMax) - Pos(rMin) + 1
           /\ rOut.list # <<>>
           /\ rOut.list[1] = rMin
           /\ rOut.list[Len(rOut.list)] = rMax
           /\ \A i \in 1..Len(rOut.list) : rOut.list[i] = Shipped[Pos(rMin) + i - 1]
           /\ \A i, j \in 1..Len(rOut.list) :
                  i < j => /\ rOut.list[i] \in ShippedTags
                           /\ rOut.list[j] \in ShippedTags
                           /\ Pos(rOut.list[i]) < Pos(rOut.list[j])

C4_Witness ==
    /\ rPc = "done"
    /\ rMin = Shipped[2] /\ rMax = Shipped[4]
    /\ rOut.ok /\ Len(rOut.list) = 3

\* C5 as stated: range accepts a range only if, whenever either endpoint is
\* "local" or "latest", both endpoints are that value; a range with exactly
\* one such endpoint fails.
C5_Original ==
    (rPc = "done" /\ rOut.ok)
        => ((rMin \in {Local, Latest} \/ rMax \in {Local, Latest}) => rMin = rMax)

\* C5: range accepts a range with an endpoint "local" only if both endpoints
\* are "local", and a range whose minimum is "latest" only if its maximum is
\* "latest" too; a shipped minimum with maximum "latest" is accepted and gives
\* the shipped versions from the minimum on, followed by "latest".
C5_SpecialEndpoints ==
    rPc = "done" =>
        /\ rOut.ok => /\ (rMin = Local \/ rMax = Local) => rMin = rMax
                      /\ rMin = Latest => rMax = Latest
        /\ (rMin \in ShippedTags /\ rMax = Latest)
               => /\ rOut.ok
                  /\ rOut.list = SubSeq(Shipped, Pos(rMin), NumShipped) \o <<Latest>>

\* ("local", shipped) fails
C5_Witness ==
    /\ rPc = "done"
    /\ rMin = Local /\ rMax \in ShippedTags
    /\ ~rOut.ok /\ rOut.list = <<>>

\* C6 as stated: range fails with an InvalidRange error for shipped tags in
\* inverted order, and with a distinct UnknownVersion error when min or max
\* is absent from the shipped sequence: the failure of a call with an absent
\* tag is never the failure an inverted range produces.
C6_Original ==
    rPc = "done" =>
        /\ (Inverted(rMin, rMax) \/ HasUnknown(rMin, rMax)) => ~rOut.ok
        /\ HasUnknown(rMin, rMax) =>
               \A a, b \in ShippedTags : Inverted(a, b) => range(a, b) # rOut

\* C6: range fails, returning no version list, when both tags are shipped
\* and min's position is greater than max's, and when min or max is absent
\* from the shipped sequence; every failure is a failed assertion: an
\* inverted range and an absent maximum after a shipped minimum both fail
\* assert(maxIdx >= minIdx), an absent minimum fails assert(minIdx >= 0)
\* unless the maximum is "local".
C6_RangeFailures ==
    rPc = "done" =>
        /\ (Inverted(rMin, rMax) \/ HasUnknown(rMin, rMax))
               => ~rOut.ok /\ rOut.list = <<>>
        /\ Inverted(rMin, rMax) => rOut.failed = "maxIdx >= minIdx"
        /\ (rMin \in ShippedTags /\ rMax \in UnknownTags)
               => rOut.failed = "maxIdx >= minIdx"
        /\ (rMin \in UnknownTags /\ rMax # Local) => rOut.failed = "minIdx >= 0"

\* an absent maximum fails exactly as an inverted range does
C6_Witness ==
    /\ rPc = "done"
    /\ rMin = Shipped[2] /\ rMax \in UnknownTags
    /\ ~rOut.ok
    /\ rOut = range(Shipped[2], Shipped[1])

\* C7: whenever the loaded configuration has no "expect" rule or has it at a
\* severity other than "error", getLintConfig throws: the rule's arguments
\* are not written, range is not called, and no file is scanned or linted;
\* for the project or default configuration and for the expect-only one.
C7_MisconfiguredRuleThrows ==
    (config.loaded /\ ~(config.hasExpect /\ config.ruleSeverity = "error"))
        => /\ pc = "done"
           /\ outcome = Threw(ExpectDisabledMessage)
           /\ ~config.ruleArguments.written
           /\ resolved = NoResult
           /\ scanned = <<>> /\ fed = <<>> /\ failures = <<>> /\ idx = 1

\* the expect-only configuration with "expect" at severity "warning", in a
\* program that has a file with a banned directive
C7_Witness ==
    /\ pc = "done" /\ expectOnly /\ configPath = ExpectOnlyConfigPath
    /\ config.loaded /\ config.hasExpect /\ config.ruleSeverity = "warning"
    /\ BannedFiles # {}
    /\ outcome.kind = "threw"

\* C8: when getLintConfig returned a configuration and no scanned file holds
\* a banned directive, lint() returns undefined if the rule engine's result
\* has no failures and the engine's output if it has at least one.
C8_EngineResultReturned ==
    (pc = "done" /\ Configured /\ BannedFiles = {})
        => IF failures = <<>> THEN outcome = ReturnedUndefined
           ELSE outcome = EngineOutput(failures)

\* no violations, although a dependency's file holds a banned directive
C8_Witness ==
    /\ pc = "done" /\ Configured
    /\ outcome = ReturnedUndefined
    /\ Len(fed) = 2
    /\ \E i \in 1..Len(files) :
          files[i].fileName = DependencyFileName /\ HasBanned(files[i].text)

\* the shared root directory of a file path and a directory path: the same
\* drive up to the case of its letter, and the same directory segments
FoldDrive(drive) == IF drive = <<"c", ":">> THEN <<"C", ":">> ELSE drive
SameDirectory(f, d) == FoldDrive(f.drive) = FoldDrive(d.drive) /\ f.root = d.root
\* the segments of RelSegments named ts<major>.<minor>
VersionSegments == {<<"t", "s", "3", ".", "8">>, <<"t", "s", "1", "0", ".", "1", "2">>}

C10_FedAndScannedFiles ==
    /\ \A k \in 1..Len(scanned) : ContentScanned(scanned[k])
    /\ \A k \in 1..Len(fed) : EngineFed(fed[k])
    /\ (pc = "done" /\ Configured /\ outcome.kind # "contentError")
           => /\ fed = SelectSeq(Indices, EngineFed)
              /\ scanned = SelectSeq(Indices, ContentScanned)

\* latest pass: a pinned file is scanned and not fed, a dependency's file
\* with a banned directive is fed and not scanned
C10_Witness ==
    /\ pc = "done" /\ Configured /\ isLatest
    /\ outcome.kind \in {"undefined", "engineOutput"}
    /\ Len(files) = 2
    /\ files[1].fileName = PinnedFileName
    /\ files[2].fileName = DependencyFileName /\ HasBanned(files[2].text)
    /\ scanned = <<1>> /\ fed = <<2>>
=============================================================================
